---- MODULE Spec2Model ----
(***************************************************************************)
(* The AI-news e-mail pipelines of jesuegraciliano/ianews:                 *)
(*   "openai" : src/ai_news_agent_openai.py                                *)
(*   "crew"   : src/send_ai_news.py                                        *)
(*   "bot"    : src/ia_news_bot.py                                         *)
(* One run of a script is one behaviour: configuration check, one search   *)
(* request, enrichment, composition, one SMTP session, process exit.       *)
(*                                                                         *)
(* Text is a sequence of one-character (or one-token) strings.  The        *)
(* characters of a completion are "s" (space), "n" (line break), "b" (the  *)
(* bullet U+2022), "d" (the dash "-"), "T" (the token "TITULO:" with its   *)
(* accent, which str.replace removes as a whole) and "x" (any other        *)
(* character).  Titles and URLs of provider articles are single tokens,    *)
(* "" standing for a missing (None) or empty value: both are falsy.        *)
(***************************************************************************)
EXTENDS Integers, Sequences, FiniteSets, TLC

\* ------------------------------------------------------------------ bounds
MaxContentLen == 6      \* longest completion text drawn in SpecParse
MaxProv == 11           \* longest provider list drawn in SpecFetch
MaxBad == 2             \* most entries lacking title or URL in SpecFetch
MaxPipeArticles == 2    \* longest provider list drawn in Spec

\* ------------------------------------------------------- program constants
MAX_ARTIGOS_OPENAI == 10
MAX_ARTIGOS_CREW == 3
BOT_SLICE == 5

Variants == {"openai", "crew", "bot"}

\* ---------------------------------------------------------- str operations
WS == {"s", "n"}

RECURSIVE lstrip(_, _)
lstrip(s, cs) ==
    IF s # <<>> /\ Head(s) \in cs THEN lstrip(Tail(s), cs) ELSE s

RECURSIVE rstrip(_, _)
rstrip(s, cs) ==
    IF s # <<>> /\ s[Len(s)] \in cs THEN rstrip(SubSeq(s, 1, Len(s) - 1), cs) ELSE s

strip(s, cs) ==
    rstrip(lstrip(s, cs), cs)

\* index of the first occurrence of c in s, 0 when there is none
find(s, c) ==
    IF \E i \in 1..Len(s) : s[i] = c
    THEN CHOOSE i \in 1..Len(s) : s[i] = c /\ \A j \in 1..(i - 1) : s[j] # c
    ELSE 0

\* s.split(sep, 1)
split1(s, sep) ==
    LET i == find(s, sep)
    IN  IF i = 0 THEN <<s>> ELSE <<SubSeq(s, 1, i - 1), SubSeq(s, i + 1, Len(s))>>

\* s.split(sep)
RECURSIVE split(_, _)
split(s, sep) ==
    LET i == find(s, sep)
    IN  IF i = 0 THEN <<s>>
        ELSE <<SubSeq(s, 1, i - 1)>> \o split(SubSeq(s, i + 1, Len(s)), sep)

\* s.replace(tok, "") for a one-token tok
replace(s, tok) ==
    SelectSeq(s, LAMBDA c : c # tok)

\* sep.join(parts)
RECURSIVE join(_, _)
join(parts, sep) ==
    IF parts = <<>> THEN <<>>
    ELSE IF Len(parts) = 1 THEN parts[1]
    ELSE parts[1] \o <<sep>> \o join(Tail(parts), sep)

\* parts[0] + parts[1] + ...
RECURSIVE concat(_)
concat(parts) ==
    IF parts = <<>> THEN <<>> ELSE Head(parts) \o concat(Tail(parts))

count(s, c) ==
    Cardinality({i \in 1..Len(s) : s[i] = c})

\* ------------------------------------------------------------ configuration
\* `not v` of an environment value: unset (None) and the empty string are falsy
Falsy(v) ==
    v \in {"unset", "empty"}

EnvValues == {"unset", "empty", "set"}

\* the keys of `required` (ai_news_agent_openai.py) in dict order
RequiredOpenai ==
    <<"NEWS_API_KEY", "OPENAI_API_KEY", "EMAIL_FROM", "EMAIL_PASSWORD">>

\* the keys of ENV (send_ai_news.py) in dict order
RequiredCrew ==
    <<"NEWS_API_KEY", "OPENAI_API_KEY", "SERPER_API_KEY", "EMAIL_FROM", "EMAIL_PASSWORD">>

\* the variables ia_news_bot.py reads; only the first two are checked
BotVars ==
    <<"NEWS_API_KEY", "GMAIL_APP_PASSWORD", "GMAIL_SENDER_EMAIL">>

Range(s) ==
    {s[i] : i \in 1..Len(s)}

EnvVars(v) ==
    IF v = "openai" THEN Range(RequiredOpenai)
    ELSE IF v = "crew" THEN Range(RequiredCrew)
    ELSE Range(BotVars)

\* a mutant of missing: only an unset variable counts, an empty one passes
missing_unset_only(required, e) ==
    SelectSeq(required, LAMBDA k : e[k] = "unset")

\* missing = [k for k, v in required.items() if not v]
missing(required, e) ==
    SelectSeq(required, LAMBDA k : Falsy(e[k]))

\* ------------------------------------------------------------------ fetcher
Qualifies(art) ==
    art.title # "" /\ art.url # ""

\* the for loop of buscar_artigos / fetch_ai_headlines
RECURSIVE collect(_, _, _)
collect(arts, items, max) ==
    IF arts = <<>> \/ Len(items) = max THEN items
    ELSE IF Qualifies(Head(arts))
         THEN collect(Tail(arts), Append(items, Head(arts)), max)
         ELSE collect(Tail(arts), items, max)

buscar_artigos(arts) ==
    collect(arts, <<>>, MAX_ARTIGOS_OPENAI)

fetch_ai_headlines(arts) ==
    collect(arts, <<>>, MAX_ARTIGOS_CREW)

Min(a, b) ==
    IF a < b THEN a ELSE b

\* f"{titulo} - {link}"
Noticia(art) ==
    <<art.title, " - ", art.url>>

PlaceholderFetch == <<"Nenhuma noticia de IA encontrada hoje.">>

\* the body of pesquisar_noticias_ia once data is a JSON object holding both keys:
\* the list it returns
pesquisar_lista(status, arts) ==
    IF status = "ok" /\ arts # <<>>
    THEN LET first == SubSeq(arts, 1, Min(BOT_SLICE, Len(arts)))
             kept == SelectSeq(first, Qualifies)
         IN  [i \in 1..Len(kept) |-> Noticia(kept[i])]
    ELSE <<PlaceholderFetch>>

\* ----------------------------------------------------------------- enricher
\* a mutant of strip_linha: the summary lines lose their dashes too, as the
\* title does
strip_linha_dashes(ln) ==
    strip(ln, {"s", "b", "d"})

\* ln.strip(" •") of one summary line
strip_linha(ln) ==
    strip(ln, {"s", "b"})

resumo_linhas(resumo) ==
    LET lns == SelectSeq(split(resumo, "n"), LAMBDA ln : strip(ln, WS) # <<>>)
    IN  [i \in 1..Len(lns) |-> strip_linha(lns[i])]

\* the parse of resumo_ai, from `content = ...strip()` on
resumo_ai(reply) ==
    LET content == strip(reply, WS)
        partes == split1(content, "n")
        resumo == IF Len(partes) = 2 THEN partes[2] ELSE <<>>
    IN  [titulo      |-> strip(replace(partes[1], "T"), {"s", "b", "d"}),
         resumo_html |-> join(resumo_linhas(resumo), "<br>"),
         resumo_txt  |-> join(resumo_linhas(resumo), "n")]

\* ----------------------------------------------------------------- composer
\* one block of txt in montar_email
txt_block(it) ==
    it.titulo \o <<"n">> \o it.resumo_txt \o <<"n", "Link: ", it.url, "n">>

\* a mutant of html_item: the anchor shows a fixed label, not the URL
html_item_label(it) ==
    <<"<li><strong>">> \o it.titulo \o <<"</strong><br>">> \o it.resumo_html
        \o <<"<br>", "<a href='", it.url, "'>", "link", "</a></li>">>

\* one <li> of html in montar_email
html_item(it) ==
    <<"<li><strong>">> \o it.titulo \o <<"</strong><br>">> \o it.resumo_html
        \o <<"<br>", "<a href='", it.url, "'>", it.url, "</a></li>">>

montar_email_txt(its) ==
    join([i \in 1..Len(its) |-> txt_block(its[i])], "n")

montar_email_html(its) ==
    <<"<h1>IA: Manchetes & Resumos</h1><ol>">>
        \o concat([i \in 1..Len(its) |-> html_item(its[i])])
        \o <<"</ol><p>Enviado via GitHub Actions + OpenAI API.</p>">>

PlaceholderCompose == "<li>Nenhuma noticia disponivel hoje.</li>"

\* corpo_email of enviar_email; `vazio` is `not noticias` (None or an empty list)
corpo_email(vazio, noticias) ==
    <<"<h1>Ultimas Noticias de IA</h1><ul>">>
        \o (IF vazio THEN <<PlaceholderCompose>>
            ELSE concat([i \in 1..Len(noticias) |-> <<"<li>">> \o noticias[i] \o <<"</li>">>]))
        \o <<"</ul><br><p>Este e um servico automatizado.</p>">>

\* markdown_body.replace("\n", "<br>") of send_email
markdown_html(body) ==
    [i \in 1..Len(body) |-> IF body[i] = "n" THEN "<br>" ELSE body[i]]

\* -------------------------------------------------------------------- state
VARIABLES
    variant,     \* which script runs
    env,         \* the process environment: variable -> "unset" | "empty" | "set"
    pc,          \* where the run is
    resp,        \* what the search request met
    items,       \* the list buscar_artigos / fetch_ai_headlines returned
    noticias,    \* what pesquisar_noticias_ia returned: None, or a list of strings
    replies,     \* the completions received so far (openai)
    enriched,    \* the list comprehension of main, as far as it got (openai)
    article,     \* the text crew.kickoff returned (crew)
    plainBody,   \* the text/plain part composed
    htmlBody,    \* the text/html part composed
    stages,      \* the stages entered so far
    httpCalls,   \* search requests issued
    llmCalls,    \* completion / crew calls issued
    smtpCalls,   \* SMTP sessions opened
    smtp,        \* the SMTP session: "none", "connected", "authenticated",
                 \* "unreachable", "rejected", "lost", "refused", "accepted"
    sent,        \* messages the SMTP server accepted
    exitCode,    \* -1 while the process runs
    diag         \* the lines written to stdout / stderr

vars ==
    <<variant, env, pc, resp, items, noticias, replies, enriched, article,
      plainBody, htmlBody, stages, httpCalls, llmCalls, smtpCalls, smtp, sent,
      exitCode, diag>>

\* ------------------------------------------------------------------- inputs
Kinds == {"ok", "notitle", "nourl", "neither"}

\* the i-th article of a provider list: distinct titles and URLs, or none
ArticleAt(i, k) ==
    [title |-> IF k \in {"ok", "nourl"} THEN "t" \o ToString(i) ELSE "",
     url   |-> IF k \in {"ok", "notitle"} THEN "u" \o ToString(i) ELSE ""]

ListOf(f) ==
    [i \in DOMAIN f |-> ArticleAt(i, f[i])]

PipeLists ==
    UNION {{ListOf(f) : f \in [1..n -> Kinds]} : n \in 0..MaxPipeArticles}

NoResp ==
    [status |-> "absent", body |-> "none", kind |-> "none", httpOk |-> TRUE,
     hasArticles |-> FALSE, articles |-> <<>>]

\* what one GET can meet: no connection, a timeout, or an HTTP response whose
\* body is not JSON, or is a JSON object with or without "status" and "articles"
Responses(lists) ==
    {[NoResp EXCEPT !.kind = k] : k \in {"neterr", "timeout"}}
    \cup {[NoResp EXCEPT !.kind = "http", !.httpOk = h, !.body = "badjson"] : h \in BOOLEAN}
    \cup {[status |-> st, body |-> "json", kind |-> "http", httpOk |-> h,
           hasArticles |-> TRUE, articles |-> l] :
             h \in BOOLEAN, st \in {"ok", "error", "absent"}, l \in lists}
    \cup {[status |-> st, body |-> "json", kind |-> "http", httpOk |-> h,
           hasArticles |-> FALSE, articles |-> <<>>] :
             h \in BOOLEAN, st \in {"ok", "error", "absent"}}

PipeResponses ==
    Responses(PipeLists)

\* completions the run of Spec may receive
PipeCompletions ==
    {<<"x">>, <<"T", "s", "x", "n", "b", "s", "x", "n", "d", "x">>}

\* articles the crew may return
PipeArticles ==
    {<<"x", "n", "x">>, <<>>}

NoNoticias ==
    [none |-> TRUE, lista |-> <<>>]

Init ==
    /\ variant \in Variants
    /\ env \in [EnvVars(variant) -> EnvValues]
    /\ pc = "config"
    /\ resp = NoResp
    /\ items = <<>>
    /\ noticias = NoNoticias
    /\ replies = <<>>
    /\ enriched = <<>>
    /\ article = <<>>
    /\ plainBody = <<>>
    /\ htmlBody = <<>>
    /\ stages = {}
    /\ httpCalls = 0
    /\ llmCalls = 0
    /\ smtpCalls = 0
    /\ smtp = "none"
    /\ sent = 0
    /\ exitCode = -1
    /\ diag = <<>>

Line(text, names) ==
    [text |-> text, names |-> names]

\* sys.exit(1) / exit(1) after one diagnostic line
ExitWith(text, names) ==
    /\ diag' = Append(diag, Line(text, names))
    /\ exitCode' = 1
    /\ pc' = "exit"

\* a mutant of main_except: the handler reports and returns, the process exits 0
main_except_returns(exc) ==
    /\ diag' = Append(diag, Line("Falha", <<exc>>))
    /\ exitCode' = 0
    /\ pc' = "exit"

\* a mutant of main_except: the handler writes a fixed line without the exception
main_except_fixed_line(exc) ==
    ExitWith("Falha", <<>>)

\* except Exception as exc: sys.stderr.write(f"Falha: {exc}\n"); sys.exit(1)
\* (main of ai_news_agent_openai.py, __main__ of send_ai_news.py)
main_except(exc) ==
    ExitWith("Falha", <<exc>>)

\* ------------------------------------------------------------ configuration
Required(v) ==
    IF v = "openai" THEN RequiredOpenai ELSE RequiredCrew

\* module level of ai_news_agent_openai.py and send_ai_news.py
LoadConfig ==
    /\ pc = "config"
    /\ variant \in {"openai", "crew"}
    /\ LET m == missing(Required(variant), env)
       IN  IF m # <<>>
           THEN ExitWith("Faltam variaveis", m)
           ELSE pc' = "fetch" /\ UNCHANGED <<diag, exitCode>>
    /\ UNCHANGED <<variant, env, resp, items, noticias, replies, enriched, article,
                   plainBody, htmlBody, stages, httpCalls, llmCalls, smtpCalls, smtp, sent>>

\* ia_news_bot.py, line 57: `noticias =` has no right-hand side, so the
\* interpreter rejects the file when it loads it and nothing of it runs
BotSyntaxError ==
    /\ pc = "config"
    /\ variant = "bot"
    /\ ExitWith("SyntaxError", <<>>)
    /\ UNCHANGED <<variant, env, resp, items, noticias, replies, enriched, article,
                   plainBody, htmlBody, stages, httpCalls, llmCalls, smtpCalls, smtp, sent>>

\* module level of ia_news_bot.py: two checks in a row, each naming one variable
BotConfig ==
    /\ pc = "config"
    /\ variant = "bot"
    /\ IF Falsy(env["NEWS_API_KEY"])
       THEN ExitWith("ERRO", <<"NEWS_API_KEY">>)
       ELSE IF Falsy(env["GMAIL_APP_PASSWORD"])
            THEN ExitWith("ERRO", <<"GMAIL_APP_PASSWORD">>)
            ELSE pc' = "fetch" /\ UNCHANGED <<diag, exitCode>>
    /\ UNCHANGED <<variant, env, resp, items, noticias, replies, enriched, article,
                   plainBody, htmlBody, stages, httpCalls, llmCalls, smtpCalls, smtp, sent>>

\* ------------------------------------------------------------------ fetcher
\* the exception requests.get(...).json() raises on r, "" when it returns
GetJsonRaises(r) ==
    IF r.kind = "neterr" THEN "ConnectionError"
    ELSE IF r.kind = "timeout" THEN "Timeout"
    ELSE IF r.body = "badjson" THEN "JSONDecodeError"
    ELSE ""

\* data.get("articles", [])
ArticlesOf(r) ==
    IF r.hasArticles THEN r.articles ELSE <<>>

\* buscar_artigos() / fetch_ai_headlines() as main calls it
Fetch(r) ==
    /\ pc = "fetch"
    /\ variant \in {"openai", "crew"}
    /\ httpCalls' = httpCalls + 1
    /\ resp' = r
    /\ stages' = stages \cup {"fetch"}
    /\ IF GetJsonRaises(r) # ""
       THEN main_except(GetJsonRaises(r)) /\ UNCHANGED items
       ELSE IF r.status # "ok"
            THEN main_except("RuntimeError") /\ UNCHANGED items
            ELSE /\ items' = IF variant = "openai" THEN buscar_artigos(ArticlesOf(r))
                                                    ELSE fetch_ai_headlines(ArticlesOf(r))
                 /\ pc' = IF variant = "crew" THEN "generate"
                          ELSE IF items' = <<>> THEN "compose" ELSE "enrich"
                 /\ UNCHANGED <<diag, exitCode>>
    /\ UNCHANGED <<variant, env, noticias, replies, enriched, article,
                   plainBody, htmlBody, llmCalls, smtpCalls, smtp, sent>>

\* the exception the try block of pesquisar_noticias_ia raises on r, "" when none:
\* requests.get, raise_for_status, response.json, data['status'], data['articles']
PesquisarRaises(r) ==
    IF GetJsonRaises(r) \in {"ConnectionError", "Timeout"} THEN GetJsonRaises(r)
    ELSE IF ~r.httpOk THEN "HTTPError"
    ELSE IF r.body = "badjson" THEN "JSONDecodeError"
    ELSE IF r.status = "absent" THEN "KeyError"
    ELSE IF r.status = "ok" /\ ~r.hasArticles THEN "KeyError"
    ELSE ""

\* pesquisar_noticias_ia() as tarefa_diaria calls it: both except clauses print
\* and return None, and tarefa_diaria goes on to enviar_email
BotFetch(r) ==
    /\ pc = "fetch"
    /\ variant = "bot"
    /\ httpCalls' = httpCalls + 1
    /\ resp' = r
    /\ stages' = stages \cup {"fetch"}
    /\ IF PesquisarRaises(r) # ""
       THEN /\ diag' = Append(diag, Line("Erro na pesquisa", <<PesquisarRaises(r)>>))
            /\ noticias' = NoNoticias
       ELSE /\ noticias' = [none |-> FALSE, lista |-> pesquisar_lista(r.status, r.articles)]
            /\ diag' = IF r.status = "ok" /\ r.articles # <<>> THEN diag
                       ELSE Append(diag, Line("Nenhum artigo encontrado", <<>>))
    /\ pc' = "enviar_email"
    /\ UNCHANGED <<variant, env, items, replies, enriched, article,
                   plainBody, htmlBody, llmCalls, smtpCalls, smtp, sent, exitCode>>

\* ----------------------------------------------------------------- enricher
\* one resumo_ai(a['title'], a['description']) of main's list comprehension
\* whose completion call returns the text c
Enrich(c) ==
    /\ pc = "enrich"
    /\ variant = "openai"
    /\ llmCalls' = llmCalls + 1
    /\ stages' = stages \cup {"enrich"}
    /\ replies' = Append(replies, c)
    /\ LET a == items[Len(enriched) + 1]
           e == resumo_ai(c)
       IN  enriched' = Append(enriched,
                              [title |-> a.title, url |-> a.url, titulo |-> e.titulo,
                               resumo_html |-> e.resumo_html, resumo_txt |-> e.resumo_txt])
    /\ pc' = IF Len(enriched') = Len(items) THEN "compose" ELSE "enrich"
    /\ UNCHANGED <<variant, env, resp, items, noticias, article, plainBody, htmlBody,
                   httpCalls, smtpCalls, smtp, sent, exitCode, diag>>

\* the completion call of resumo_ai raises: main's handler ends the run
EnrichFail ==
    /\ pc = "enrich"
    /\ variant = "openai"
    /\ llmCalls' = llmCalls + 1
    /\ stages' = stages \cup {"enrich"}
    /\ main_except("OpenAIError")
    /\ UNCHANGED <<variant, env, resp, items, noticias, replies, enriched, article,
                   plainBody, htmlBody, httpCalls, smtpCalls, smtp, sent>>

\* generate_article(manchetes) whose crew.kickoff returns the text a
GenerateArticle(a) ==
    /\ pc = "generate"
    /\ variant = "crew"
    /\ llmCalls' = llmCalls + 1
    /\ stages' = stages \cup {"enrich"}
    /\ article' = a
    /\ pc' = "compose"
    /\ UNCHANGED <<variant, env, resp, items, noticias, replies, enriched,
                   plainBody, htmlBody, httpCalls, smtpCalls, smtp, sent, exitCode, diag>>

\* crew.kickoff raises
GenerateFail ==
    /\ pc = "generate"
    /\ variant = "crew"
    /\ llmCalls' = llmCalls + 1
    /\ stages' = stages \cup {"enrich"}
    /\ main_except("CrewError")
    /\ UNCHANGED <<variant, env, resp, items, noticias, replies, enriched, article,
                   plainBody, htmlBody, httpCalls, smtpCalls, smtp, sent>>

\* ----------------------------------------------------------------- composer
\* montar_email(enriched)
MontarEmail ==
    /\ pc = "compose"
    /\ variant = "openai"
    /\ stages' = stages \cup {"compose"}
    /\ plainBody' = montar_email_txt(enriched)
    /\ htmlBody' = montar_email_html(enriched)
    /\ pc' = "send"
    /\ UNCHANGED <<variant, env, resp, items, noticias, replies, enriched, article,
                   httpCalls, llmCalls, smtpCalls, smtp, sent, exitCode, diag>>

\* send_email(article_md) up to the two msg.attach calls
SendEmailCompose ==
    /\ pc = "compose"
    /\ variant = "crew"
    /\ stages' = stages \cup {"compose", "send"}
    /\ plainBody' = article
    /\ htmlBody' = markdown_html(article)
    /\ pc' = "send"
    /\ UNCHANGED <<variant, env, resp, items, noticias, replies, enriched, article,
                   httpCalls, llmCalls, smtpCalls, smtp, sent, exitCode, diag>>

\* enviar_email(noticias): msg is rebound to a str at lines 86-87, so once the
\* body is built msg.attach raises AttributeError, outside the try block and
\* with no handler in tarefa_diaria: a traceback and exit status 1
BotEnviarEmail ==
    /\ pc = "enviar_email"
    /\ variant = "bot"
    /\ stages' = stages \cup {"compose", "send"}
    /\ htmlBody' = corpo_email(noticias.none \/ noticias.lista = <<>>, noticias.lista)
    /\ ExitWith("Traceback", <<"AttributeError">>)
    /\ UNCHANGED <<variant, env, resp, items, noticias, replies, enriched, article,
                   plainBody, httpCalls, llmCalls, smtpCalls, smtp, sent>>

\* ------------------------------------------------------------------- sender
\* smtplib.SMTP_SSL("smtp.gmail.com", 465) of enviar / send_email
SmtpConnect(ok) ==
    /\ pc = "send"
    /\ variant \in {"openai", "crew"}
    /\ stages' = stages \cup {"send"}
    /\ smtpCalls' = smtpCalls + 1
    /\ IF ok THEN smtp' = "connected" /\ pc' = "login" /\ UNCHANGED <<diag, exitCode>>
             ELSE smtp' = "unreachable" /\ main_except("OSError")
    /\ UNCHANGED <<variant, env, resp, items, noticias, replies, enriched, article,
                   plainBody, htmlBody, httpCalls, llmCalls, sent>>

\* s.login(EMAIL_FROM, EMAIL_PASSWORD): accepted, the credential rejected (the
\* server's 535 reply, SMTPAuthenticationError), or the connection lost.  The
\* exception's name stands for its message, which is what the handler writes
SmtpLogin(outcome) ==
    /\ pc = "login"
    /\ IF outcome = "ok"
       THEN smtp' = "authenticated" /\ pc' = "sendmail" /\ UNCHANGED <<diag, exitCode>>
       ELSE IF outcome = "rejected"
            THEN smtp' = "rejected" /\ main_except("SMTPAuthenticationError")
            ELSE smtp' = "lost" /\ main_except("SMTPServerDisconnected")
    /\ UNCHANGED <<variant, env, resp, items, noticias, replies, enriched, article,
                   plainBody, htmlBody, stages, httpCalls, llmCalls, smtpCalls, sent>>

\* s.sendmail(...): accepted, then the success line and a normal return (exit
\* status 0), or refused
SmtpSendmail(ok) ==
    /\ pc = "sendmail"
    /\ IF ok
       THEN /\ smtp' = "accepted"
            /\ sent' = sent + 1
            /\ diag' = Append(diag, Line("E-mail enviado", <<>>))
            /\ exitCode' = 0
            /\ pc' = "exit"
       ELSE smtp' = "refused" /\ main_except("SMTPDataError") /\ UNCHANGED sent
    /\ UNCHANGED <<variant, env, resp, items, noticias, replies, enriched, article,
                   plainBody, htmlBody, stages, httpCalls, llmCalls, smtpCalls>>

Next ==
    \/ LoadConfig
    \/ BotConfig
    \/ BotSyntaxError
    \/ \E r \in PipeResponses : Fetch(r)
    \/ \E r \in PipeResponses : BotFetch(r)
    \/ \E c \in PipeCompletions : Enrich(c)
    \/ EnrichFail
    \/ \E a \in PipeArticles : GenerateArticle(a)
    \/ GenerateFail
    \/ MontarEmail
    \/ SendEmailCompose
    \/ BotEnviarEmail
    \/ \E ok \in BOOLEAN : SmtpConnect(ok)
    \/ \E o \in {"ok", "rejected", "lost"} : SmtpLogin(o)
    \/ \E ok \in BOOLEAN : SmtpSendmail(ok)

Spec ==
    Init /\ [][Next]_vars

\* ================================================================== claims
\* what each script documents as required: the "Segredos obrigatorios" of
\* ai_news_agent_openai.py, the "Segredos/variaveis de ambiente necessarios" of
\* send_ai_news.py, the "variaveis de ambiente essenciais" of ia_news_bot.py
RequiredSet ==
    IF variant = "openai"
    THEN {"NEWS_API_KEY", "OPENAI_API_KEY", "EMAIL_FROM", "EMAIL_PASSWORD"}
    ELSE IF variant = "crew"
    THEN {"NEWS_API_KEY", "OPENAI_API_KEY", "SERPER_API_KEY", "EMAIL_FROM", "EMAIL_PASSWORD"}
    ELSE {"NEWS_API_KEY", "GMAIL_APP_PASSWORD"}

MissingSet ==
    {k \in RequiredSet : env[k] \in {"unset", "empty"}}

Last(s) ==
    s[Len(s)]

\* C1: when a required environment variable is unset or empty the run makes no
\* network call (no search request, no completion call, no SMTP session), never
\* leaves the configuration check but to exit, and exits with status 1.
C1_MissingConfigNoNetwork ==
    MissingSet # {} =>
        /\ httpCalls = 0 /\ llmCalls = 0 /\ smtpCalls = 0
        /\ pc \in {"config", "exit"}
        /\ pc = "exit" => exitCode = 1

\* C1 witness: a run that ended at the configuration check on an empty variable.
C1_Witness ==
    /\ pc = "exit" /\ exitCode = 1 /\ httpCalls = 0
    /\ \E k \in RequiredSet : env[k] = "empty"
    /\ variant = "openai"

\* C2: a run that ends on missing required parameters has written one
\* diagnostic, and the names it lists are exactly the missing ones.
C2_DiagnosticNamesExactlyMissing ==
    (pc = "exit" /\ MissingSet # {}) =>
        /\ Len(diag) = 1
        /\ Range(diag[1].names) = MissingSet

\* C2: the same statement for the two scripts that collect the names in a list.
C2_ListVariantsNameExactlyMissing ==
    (variant \in {"openai", "crew"} /\ pc = "exit" /\ MissingSet # {}) =>
        /\ Len(diag) = 1
        /\ Range(diag[1].names) = MissingSet

\* C2 witness: ia_news_bot.py ran its two checks with both variables missing and
\* named only the first.
C2_Witness ==
    /\ variant = "bot" /\ pc = "exit"
    /\ MissingSet = {"NEWS_API_KEY", "GMAIL_APP_PASSWORD"}
    /\ diag = <<Line("ERRO", <<"NEWS_API_KEY">>)>>

StatusNotOk ==
    resp.kind = "http" /\ resp.body = "json" /\ resp.status = "error"

\* C4: once the provider has answered with a status other than "ok", the
\* compose and send stages are never entered, no e-mail is sent and the process
\* exits 1.
C4_NotOkStatusStopsBeforeCompose ==
    StatusNotOk =>
        /\ "compose" \notin stages /\ "send" \notin stages
        /\ sent = 0
        /\ pc = "exit" => exitCode = 1

\* C4: the same statement for ai_news_agent_openai.py and send_ai_news.py, whose
\* fetchers raise on the status.
C4_RaisingVariantsStop ==
    (variant \in {"openai", "crew"} /\ StatusNotOk) =>
        /\ pc = "exit" /\ exitCode = 1
        /\ "compose" \notin stages /\ "send" \notin stages
        /\ sent = 0

\* C4 witness: ia_news_bot.py composed its body after a non-"ok" status.
C4_Witness ==
    /\ variant = "bot" /\ StatusNotOk /\ resp.httpOk
    /\ "compose" \in stages
    /\ htmlBody # <<>>

SearchFailed ==
    \/ resp.kind \in {"neterr", "timeout"}
    \/ resp.kind = "http" /\ resp.body = "badjson"

\* C5: once the search request has failed (no connection, a timeout, a body
\* that is not JSON) the run is aborted: no later stage is entered, so the send
\* stage is never reached, no e-mail is sent, and the process exits with a
\* status other than 0.
C5_SearchFailureAbortsRun ==
    SearchFailed =>
        /\ stages \subseteq {"fetch"}
        /\ "send" \notin stages
        /\ sent = 0
        /\ pc = "exit" => exitCode # 0

\* C5: the same statement for ai_news_agent_openai.py and send_ai_news.py, where
\* the exception reaches the handler of main.
C5_RaisingVariantsAbort ==
    (variant \in {"openai", "crew"} /\ SearchFailed) =>
        /\ pc = "exit" /\ exitCode = 1
        /\ stages = {"fetch"}
        /\ sent = 0 /\ smtpCalls = 0

\* C5 witness: ia_news_bot.py entered enviar_email after a failed search.
C5_Witness ==
    /\ variant = "bot" /\ resp.kind = "timeout"
    /\ noticias.none
    /\ "send" \in stages

C6_WitnessSuccess ==
    /\ pc = "exit" /\ sent = 1 /\ exitCode = 0

AuthSpecific(line) ==
    "SMTPAuthenticationError" \in Range(line.names)

ZeroQualifying ==
    /\ resp.kind = "http" /\ resp.body = "json" /\ resp.status = "ok"
    /\ \A i \in 1..Len(ArticlesOf(resp)) : ~Qualifies(ArticlesOf(resp)[i])

Placeholders ==
    {PlaceholderCompose, PlaceholderFetch[1]}

PlaceholderLines(body) ==
    Cardinality({i \in 1..Len(body) : body[i] \in Placeholders})

\* the scripts that compose the bodies from the article list
ComposesFromList ==
    variant \in {"openai", "bot"}

\* C7: when the fetcher yielded no qualifying article, every body composed from
\* the article list is non-empty and holds exactly one placeholder line: the
\* plain-text and the HTML body of ai_news_agent_openai.py, the HTML body (the
\* only one) of ia_news_bot.py.
C7_ZeroArticlesPlaceholder ==
    (ComposesFromList /\ ZeroQualifying /\ "compose" \in stages) =>
        /\ htmlBody # <<>> /\ PlaceholderLines(htmlBody) = 1
        /\ variant = "openai" => plainBody # <<>> /\ PlaceholderLines(plainBody) = 1

\* C7: the same statement for ia_news_bot.py alone.
C7_BotPlaceholder ==
    (variant = "bot" /\ ZeroQualifying /\ "compose" \in stages) =>
        htmlBody # <<>> /\ PlaceholderLines(htmlBody) = 1

\* C7 witness: montar_email composed an empty plain-text body, and an HTML body
\* of header and footer alone, from an empty provider list.
C7_Witness ==
    /\ variant = "openai" /\ ZeroQualifying /\ "compose" \in stages
    /\ resp.articles = <<>>
    /\ plainBody = <<>>
    /\ Len(htmlBody) = 2

\* the URLs of the list the composer was given
ComposerUrls ==
    IF variant = "openai" THEN {enriched[i].url : i \in 1..Len(enriched)}
    ELSE {n[3] : n \in {m \in Range(noticias.lista) : Len(m) = 3}}

Composed ==
    ComposesFromList /\ "compose" \in stages

\* C8 as stated: every URL of the list given to the composer occurs exactly
\* once in the plain-text body (where the script composes one) and exactly once
\* in the HTML body.
C8_UrlOnceInEachBody ==
    Composed =>
        \A u \in ComposerUrls :
            /\ count(htmlBody, u) = 1
            /\ variant = "openai" => count(plainBody, u) = 1

\* C8 amended: every URL of the list given to the composer occurs exactly once
\* in the plain-text body of ai_news_agent_openai.py, exactly twice in its HTML
\* body (the anchor's href and the anchor's text), and exactly once in the HTML
\* body of ia_news_bot.py.
C8_UrlOncePlainTwiceHtml ==
    Composed =>
        \A u \in ComposerUrls :
            /\ variant = "openai" => count(plainBody, u) = 1 /\ count(htmlBody, u) = 2
            /\ variant = "bot" => count(htmlBody, u) = 1

\* C8 witness: montar_email composed two articles with different URLs.
C8_Witness ==
    /\ variant = "openai" /\ "compose" \in stages
    /\ Len(enriched) = 2
    /\ enriched[1].url # enriched[2].url
    /\ count(htmlBody, enriched[2].url) = 2

\* ============================================================ the fetcher alone
BadKinds == {"notitle", "nourl", "neither"}

\* provider lists of up to MaxProv articles, at most MaxBad of them lacking a
\* title or a URL
FetchLists ==
    UNION {UNION {{[i \in 1..n |-> ArticleAt(i, IF i \in B THEN k[i] ELSE "ok")] :
                       k \in [B -> BadKinds]} :
                  B \in {X \in SUBSET (1..n) : Cardinality(X) <= MaxBad}} :
           n \in 0..MaxProv}

OkResponse(l) ==
    [status |-> "ok", body |-> "json", kind |-> "http", httpOk |-> TRUE,
     hasArticles |-> TRUE, articles |-> l]

\* a run past its configuration check, about to issue the search request
InitFetch ==
    /\ variant \in Variants
    /\ env = [k \in EnvVars(variant) |-> "set"]
    /\ pc = "fetch"
    /\ resp = NoResp
    /\ items = <<>>
    /\ noticias = NoNoticias
    /\ replies = <<>>
    /\ enriched = <<>>
    /\ article = <<>>
    /\ plainBody = <<>>
    /\ htmlBody = <<>>
    /\ stages = {}
    /\ httpCalls = 0
    /\ llmCalls = 0
    /\ smtpCalls = 0
    /\ smtp = "none"
    /\ sent = 0
    /\ exitCode = -1
    /\ diag = <<>>

NextFetch ==
    \/ pc = "fetch" /\ \E l \in FetchLists : Fetch(OkResponse(l))
    \/ pc = "fetch" /\ \E l \in FetchLists : BotFetch(OkResponse(l))

SpecFetch ==
    InitFetch /\ [][NextFetch]_vars

\* the first n qualifying articles of a provider list, in provider order
FirstQualifying(arts, n) ==
    LET q == SelectSeq(arts, Qualifies)
    IN  SubSeq(q, 1, Min(n, Len(q)))

Fetched ==
    "fetch" \in stages /\ resp.status = "ok"

\* the configured maximum of each script
MaxOf(v) ==
    IF v = "openai" THEN MAX_ARTIGOS_OPENAI
    ELSE IF v = "crew" THEN MAX_ARTIGOS_CREW
    ELSE BOT_SLICE

\* C3: on an "ok" response the fetcher returns exactly the first N qualifying
\* articles of the provider list, in provider order (N the script's maximum):
\* min(N, number of qualifying articles) entries, entries without title or URL
\* not counting toward N.
C3_FirstNQualifying ==
    Fetched =>
        LET want == FirstQualifying(resp.articles, MaxOf(variant))
        IN  IF variant = "bot"
            THEN /\ ~noticias.none
                 /\ noticias.lista = [i \in 1..Len(want) |-> Noticia(want[i])]
            ELSE items = want

\* C3: the same statement for buscar_artigos and fetch_ai_headlines.
C3_LoopVariantsFirstN ==
    (Fetched /\ variant \in {"openai", "crew"}) =>
        items = FirstQualifying(resp.articles, MaxOf(variant))

\* C3 witness: pesquisar_noticias_ia, given six articles of which the first
\* lacks its title, returned four although five qualify.
C3_Witness ==
    /\ variant = "bot" /\ Fetched
    /\ Len(resp.articles) = 6
    /\ ~Qualifies(resp.articles[1])
    /\ Len(FirstQualifying(resp.articles, BOT_SLICE)) = 5
    /\ Len(noticias.lista) = 4

\* C3 witness for the loop: buscar_artigos cut a list of eleven to ten.
C3_WitnessLoop ==
    /\ variant = "openai" /\ Fetched
    /\ Len(resp.articles) = MAX_ARTIGOS_OPENAI + 1
    /\ Len(items) = MAX_ARTIGOS_OPENAI

\* =========================================================== the enricher alone
Chars == {"s", "b", "d", "n", "x", "T"}

\* every completion text of up to MaxContentLen characters
Contents ==
    UNION {[1..n -> Chars] : n \in 0..MaxContentLen}

\* a run of ai_news_agent_openai.py that fetched one article and is about to
\* call resumo_ai on it
InitParse ==
    /\ variant = "openai"
    /\ env = [k \in EnvVars("openai") |-> "set"]
    /\ pc = "enrich"
    /\ resp = OkResponse(<<ArticleAt(1, "ok")>>)
    /\ items = <<ArticleAt(1, "ok")>>
    /\ noticias = NoNoticias
    /\ replies = <<>>
    /\ enriched = <<>>
    /\ article = <<>>
    /\ plainBody = <<>>
    /\ htmlBody = <<>>
    /\ stages = {"fetch"}
    /\ httpCalls = 1
    /\ llmCalls = 0
    /\ smtpCalls = 0
    /\ smtp = "none"
    /\ sent = 0
    /\ exitCode = -1
    /\ diag = <<>>

NextParse ==
    pc = "enrich" /\ \E c \in Contents : Enrich(c)

SpecParse ==
    InitParse /\ [][NextParse]_vars

\* the places of the separator sep in the text t
SepPos(t, sep) ==
    {i \in 1..Len(t) : t[i] = sep}

\* the place of the j-th separator of t
NthSep(t, sep, j) ==
    CHOOSE i \in SepPos(t, sep) : Cardinality({k \in SepPos(t, sep) : k < i}) = j - 1

SegCount(t, sep) ==
    Cardinality(SepPos(t, sep)) + 1

\* the j-th of the segments the separators cut t into
SegAt(t, sep, j) ==
    LET from == IF j = 1 THEN 1 ELSE NthSep(t, sep, j - 1) + 1
        to   == IF j = SegCount(t, sep) THEN Len(t) ELSE NthSep(t, sep, j) - 1
    IN  SubSeq(t, from, to)

\* l without the characters of m at its two ends
Stripped(l, m) ==
    LET keep == {i \in 1..Len(l) : l[i] \notin m}
    IN  IF keep = {} THEN <<>>
        ELSE SubSeq(l, CHOOSE i \in keep : \A k \in keep : i <= k,
                       CHOOSE i \in keep : \A k \in keep : i >= k)

\* a title line followed by K >= 0 summary lines: no line is blank
TitlePlusK(t) ==
    \A j \in 1..SegCount(t, "n") : \E i \in DOMAIN SegAt(t, "n", j) : SegAt(t, "n", j)[i] # "s"

SummaryLines(t) ==
    SegCount(t, "n") - 1

\* the text o is the given lines, in their order, joined by sep
JoinsInOrder(o, sep, lines) ==
    IF Len(lines) = 0 THEN o = <<>>
    ELSE /\ SegCount(o, sep) = Len(lines)
         /\ \A j \in 1..Len(lines) : SegAt(o, sep, j) = lines[j]

NoLeadingMarker(l) ==
    l = <<>> \/ l[1] \notin {"b", "d"}

\* C9 as stated: of a completion made of a title line and K summary lines, the
\* title returned is the first line and the summary the K others in their
\* order, joined by line breaks (plain) and by <br> (HTML), no line of either
\* keeping a leading bullet or dash.
C9_MarkersStrippedFromEveryLine ==
    \A k \in 1..Len(replies) :
        LET t == replies[k]
            e == enriched[k]
        IN  TitlePlusK(t) =>
                /\ NoLeadingMarker(e.titulo)
                /\ SummaryLines(t) > 0 =>
                       /\ SegCount(e.resumo_txt, "n") = SummaryLines(t)
                       /\ SegCount(e.resumo_html, "<br>") = SummaryLines(t)
                       /\ \A j \in 1..SummaryLines(t) :
                              /\ NoLeadingMarker(SegAt(e.resumo_txt, "n", j))
                              /\ NoLeadingMarker(SegAt(e.resumo_html, "<br>", j))

\* C9 amended: the title returned is the first line without "TITULO:" and
\* without the spaces, bullets and dashes at its two ends; the summary is the K
\* other lines in their order, each without the spaces and bullets (dashes
\* stay) at its two ends, joined by line breaks (plain) and by <br> (HTML).
C9_TitleDashesSummaryBulletsOnly ==
    \A k \in 1..Len(replies) :
        LET t == replies[k]
            e == enriched[k]
            want == [j \in 1..SummaryLines(t) |-> Stripped(SegAt(t, "n", j + 1), {"s", "b"})]
        IN  TitlePlusK(t) =>
                /\ e.titulo = Stripped(SelectSeq(SegAt(t, "n", 1), LAMBDA c : c # "T"),
                                       {"s", "b", "d"})
                /\ JoinsInOrder(e.resumo_txt, "n", want)
                /\ JoinsInOrder(e.resumo_html, "<br>", want)

\* C9 witness: a title and two summary lines, the first led by a bullet, came
\* back as the two lines in their order without the bullet.
C9_Witness ==
    /\ replies = << <<"x", "n", "b", "x", "n", "d">> >>
    /\ enriched[1].titulo = <<"x">>
    /\ enriched[1].resumo_txt = <<"x", "n", "d">>
    /\ enriched[1].resumo_html = <<"x", "<br>", "d">>

====
